---------------------------- MODULE Spec2Model ----------------------------
(***************************************************************************)
(* NVision: detection of NV centers in FSM scan data.                      *)
(*                                                                         *)
(* The module models src/src/gui.py, whose loadJson, detect_nv_centers     *)
(* and process_fsm_files are the guarded variants of the functions of the  *)
(* same names in src/src/main.py.  The library calls the code makes        *)
(* (json.load, numpy, scipy.ndimage.gaussian_filter,                       *)
(* skimage.feature.peak_local_max) are modelled by what they compute.      *)
(*                                                                         *)
(* Numbers.  A JSON document holds integers, the literal NaN, or null.     *)
(* numpy gives an all-integer grid the dtype int64, a grid holding NaN     *)
(* the dtype float64 and a grid holding null the dtype object.  The        *)
(* Gaussian weights are fixed-point numbers with six decimals; a threshold *)
(* mean + factor * std is kept exactly, as (num + coef * sqrt(rad)) / den. *)
(***************************************************************************)
EXTENDS Integers, Sequences, FiniteSets, TLC

VARIABLES
    pc,           \* position of the single-file run: "start", "loaded", "returned", "raised"
    data,         \* the dictionary loadJson returned (NoData before)
    kwargs,       \* threshold_factor, min_distance, min_peak_height of the call
    results,      \* what detect_nv_centers returned (NoResult before, and when it raised)
    exc,          \* the exception detect_nv_centers raised ("none" otherwise)
    bpc,          \* position of process_fsm_files
    file_paths,   \* its argument: the inputs, as what each file holds
    output_dir,   \* its argument: "" (none), "exists", "new" or "blocked"
    idx,          \* its loop index (0-based, as enumerate gives it)
    stage,        \* the step of the loop body the current input is at
    all_results,  \* its list of results
    log,          \* the inputs attempted, in order, with how each ended
    raised        \* the exception that left process_fsm_files ("none" otherwise)

vars == <<pc, data, kwargs, results, exc, bpc, file_paths, output_dir, idx,
          stage, all_results, log, raised>>

detVars == <<pc, data, kwargs, results, exc>>
batchVars == <<bpc, file_paths, output_dir, idx, stage, all_results, log, raised>>

-----------------------------------------------------------------------------
(* Bounds of the model. *)

MaxSpots == 2      \* cells of a grid that differ from its background
MaxFiles == 2      \* inputs of one process_fsm_files call

(* Program constants. *)

Sigma == 1         \* gaussian_filter(scan_counts, sigma=1)
Truncate == 4      \* scipy's default truncate=4.0: the kernel spans 4 sigma
DefaultThresholdFactor == 2
DefaultMinDistance == 5

-----------------------------------------------------------------------------
(* Values of a grid cell. *)

Num(v) == [k |-> "num", v |-> v]
NaN == [k |-> "nan", v |-> 0]
Null == [k |-> "null", v |-> 0]

IsNum(c) == c.k = "num"
IsNaN(c) == c.k = "nan"

Range(s) == {s[i] : i \in 1..Len(s)}

Abs(x) == IF x < 0 THEN -x ELSE x
Sgn(x) == IF x > 0 THEN 1 ELSE IF x < 0 THEN -1 ELSE 0
Min2(a, b) == IF a < b THEN a ELSE b
Max2(a, b) == IF a > b THEN a ELSE b

RECURSIVE SumSeq(_)
SumSeq(s) == IF s = <<>> THEN 0 ELSE Head(s) + SumSeq(Tail(s))

RECURSIVE Flatten(_)
Flatten(g) == IF g = <<>> THEN <<>> ELSE Head(g) \o Flatten(Tail(g))

\* the sequence <<F(i), ..., F(n)>>
RECURSIVE Tabulate(_, _, _)
Tabulate(F(_), i, n) == IF i > n THEN <<>> ELSE <<F(i)>> \o Tabulate(F, i + 1, n)

-----------------------------------------------------------------------------
(* numpy arrays.  np_array is np.array(data['datasets']['ScanCounts']): a  *)
(* ragged list of rows raises ValueError (numpy >= 1.24) or becomes an     *)
(* object array of lists; an empty list becomes a float64 array.           *)

IsRect(g) == \A i \in 1..Len(g) : Len(g[i]) = Len(g[1])

Dtype(g) ==
    LET cells == Range(Flatten(g)) IN
    IF ~IsRect(g) \/ Null \in cells THEN "object"
    ELSE IF cells = {} \/ NaN \in cells THEN "float64"
    ELSE "int64"

np_array(g) ==
    [dtype |-> Dtype(g),
     H |-> Len(g),
     W |-> IF g = <<>> THEN 0 ELSE Len(g[1]),
     a |-> g]

ArraySize(arr) == arr.H * arr.W

\* arr[y, x] with 0-based indices, as the code writes it
At(arr, y, x) == arr.a[y + 1][x + 1]

AllCells(arr) == (0..(arr.H - 1)) \X (0..(arr.W - 1))

\* np.all(np.isnan(arr)) for a float64 or int64 array
AllIsNaN(arr) == \A p \in AllCells(arr) : IsNaN(At(arr, p[1], p[2]))

-----------------------------------------------------------------------------
(* Thresholds: the number (num + coef * sqrt(rad)) / den, den > 0.         *)

Surd(num, coef, rad, den) == [num |-> num, coef |-> coef, rad |-> rad, den |-> den]
FromInt(h) == Surd(h, 0, 0, 1)

\* the sign of x + y * sqrt(d), d >= 0
SurdSign(x, y, d) ==
    IF y = 0 \/ d = 0 THEN Sgn(x)
    ELSE IF x >= 0 /\ y > 0 THEN 1
    ELSE IF x <= 0 /\ y < 0 THEN -1
    ELSE IF x > 0 THEN Sgn(x * x - y * y * d)
    ELSE Sgn(y * y * d - x * x)

\* threshold <= 0
LeZero(t) == SurdSign(t.num, t.coef, t.rad) <= 0

\* v > threshold, for an integer v
GreaterThan(v, t) == SurdSign(t.den * v - t.num, -t.coef, t.rad) = 1

\* a NaN compares False with everything
CellExceeds(c, t) == IsNum(c) /\ GreaterThan(c.v, t)

-----------------------------------------------------------------------------
(* np.nanmean and np.nanstd: the statistics of the cells that are not NaN. *)
(* With n such cells of sum s and sum of squares q, the mean is s / n and  *)
(* the standard deviation sqrt(n * q - s * s) / n; both are NaN when n = 0.*)

NanStats(arr) ==
    LET vals == SelectSeq(Flatten(arr.a), IsNum)
        sq == [i \in 1..Len(vals) |-> vals[i].v * vals[i].v]
        vs == [i \in 1..Len(vals) |-> vals[i].v]
        n == Len(vals)
        s == SumSeq(vs)
    IN  [n |-> n, s |-> s, rad |-> n * SumSeq(sq) - s * s]

\* mean_count + threshold_factor * std_count, after the NaN fallback
StatThreshold(arr, threshold_factor) ==
    LET st == NanStats(arr) IN
    IF st.n = 0
    THEN Surd(0, threshold_factor, 0, 1)
    ELSE Surd(st.s, threshold_factor, st.rad, st.n)

-----------------------------------------------------------------------------
(* scipy.ndimage.gaussian_filter(input, sigma=1): a separable filter, one  *)
(* pass per axis (axis 0 first), each a correlation with the normalised    *)
(* kernel exp(-k^2 / 2), k in -4..4, the input extended by mode='reflect'  *)
(* (d c b a | a b c d | d c b a).  Each pass writes into an array of the   *)
(* input's dtype: for int64 the C cast drops the fraction.  A NaN under    *)
(* the kernel makes the output NaN.                                        *)

KernelRadius == Truncate * Sigma

WScale == 1000000
Weights == <<134, 4432, 53991, 241971, 398944, 241971, 53991, 4432, 134>>

Reflect(i, n) ==
    LET m == i % (2 * n) IN IF m < n THEN m ELSE 2 * n - 1 - m

\* the C cast (type)x of x = a / b: towards zero
TruncDiv(a, b) == IF a >= 0 THEN a \div b ELSE -((-a) \div b)

\* the correlation at position i of a line (a sequence of numbers): scipy
\* adds the two taps at distance k before it multiplies by their weight
RECURSIVE Correlate(_, _, _)
Correlate(line, i, k) ==
    LET n == Len(line)
        tap(j) == line[Reflect(i - 1 + j, n) + 1].v
    IN  IF k = 0
        THEN Weights[KernelRadius + 1] * tap(0)
        ELSE Weights[KernelRadius + 1 - k] * (tap(-k) + tap(k)) + Correlate(line, i, k - 1)

\* one pass over a line (a sequence of cells)
gaussian_filter1d(line) ==
    LET n == Len(line)
        out(i) == IF \E k \in (-KernelRadius)..KernelRadius :
                         ~IsNum(line[Reflect(i - 1 + k, n) + 1])
                  THEN NaN
                  ELSE Num(TruncDiv(Correlate(line, i, KernelRadius), WScale))
    IN  Tabulate(out, 1, n)

\* the filter run along axis 0 only
gaussian_filter_axis0(arr) ==
    LET col(x) == [y \in 1..arr.H |-> arr.a[y][x]]
        cols == Tabulate(LAMBDA x : gaussian_filter1d(col(x)), 1, arr.W)
        pass0(y) == [x \in 1..arr.W |-> cols[x][y]]
    IN  [arr EXCEPT !.a = Tabulate(pass0, 1, arr.H)]

gaussian_filter(arr) ==
    LET col(x) == [y \in 1..arr.H |-> arr.a[y][x]]
        cols == Tabulate(LAMBDA x : gaussian_filter1d(col(x)), 1, arr.W)
        pass0(y) == [x \in 1..arr.W |-> cols[x][y]]
    IN  [arr EXCEPT !.a = Tabulate(LAMBDA y : gaussian_filter1d(pass0(y)), 1, arr.H)]

\* np.any(smoothed > threshold)
AnyExceeds(arr, t) ==
    \E p \in AllCells(arr) : CellExceeds(At(arr, p[1], p[2]), t)

-----------------------------------------------------------------------------
(* skimage.feature.peak_local_max(image, min_distance, threshold_abs),     *)
(* with its defaults exclude_border=True, p_norm=inf, num_peaks=inf:       *)
(*   _get_peak_mask        image == maximum_filter(image, (2d+1)x(2d+1)),  *)
(*                         nothing for a trivial (constant) image, and     *)
(*                         image > threshold;                              *)
(*   _exclude_border       no peak closer than d to a border;              *)
(*   _get_high_intensity_peaks  the cells of the mask in row-major order,  *)
(*                         sorted by descending value (stable);            *)
(*   ensure_spacing        greedily in that order, a kept peak rejects     *)
(*                         every peak at Chebyshev distance < d.           *)
(* The maximum of a window that holds a NaN is not specified by scipy:     *)
(* nanIsMax chooses whether the NaN wins.                                  *)

Chebyshev(p, q) == Max2(Abs(p[1] - q[1]), Abs(p[2] - q[2]))

\* the cells of the (2d+1) x (2d+1) footprint centred at p that lie in the image
Window(arr, p, d) ==
    (Max2(0, p[1] - d)..Min2(arr.H - 1, p[1] + d)) \X (Max2(0, p[2] - d)..Min2(arr.W - 1, p[2] + d))

\* image == image_max at p
EqualsWindowMax(arr, p, d, nanIsMax) ==
    LET c == At(arr, p[1], p[2]) IN
    /\ IsNum(c)
    /\ \A q \in Window(arr, p, d) :
          LET e == At(arr, q[1], q[2]) IN
          IF IsNum(e) THEN e.v <= c.v ELSE ~nanIsMax

\* the comparison with the threshold left out: every cell the maximum filter keeps
get_peak_mask_no_threshold(arr, d, t, nanIsMax) ==
    {p \in AllCells(arr) : EqualsWindowMax(arr, p, d, nanIsMax)}

get_peak_mask(arr, d, t, nanIsMax) ==
    IF (2 * d + 1) * (2 * d + 1) = 1 \/ ArraySize(arr) = 1
    THEN {p \in AllCells(arr) : CellExceeds(At(arr, p[1], p[2]), t)}
    ELSE LET out == {p \in AllCells(arr) : EqualsWindowMax(arr, p, d, nanIsMax)} IN
         IF out = AllCells(arr)
         THEN {}
         ELSE {p \in out : CellExceeds(At(arr, p[1], p[2]), t)}

exclude_border(arr, mask, width) ==
    {p \in mask : /\ p[1] >= width /\ p[1] <= arr.H - 1 - width
                  /\ p[2] >= width /\ p[2] <= arr.W - 1 - width}

\* np.nonzero(mask), transposed: the cells of the mask in row-major order
RowMajor(arr, mask) ==
    LET all == [i \in 1..ArraySize(arr) |-> <<(i - 1) \div arr.W, (i - 1) % arr.W>>]
        in(p) == p \in mask
    IN  SelectSeq(all, in)

\* x put into the descending sequence s behind every element that is >= x
RECURSIVE InsertDesc(_, _, _)
InsertDesc(arr, s, p) ==
    IF s = <<>> THEN <<p>>
    ELSE IF At(arr, Head(s)[1], Head(s)[2]).v >= At(arr, p[1], p[2]).v
         THEN <<Head(s)>> \o InsertDesc(arr, Tail(s), p)
         ELSE <<p>> \o s

\* coord[np.argsort(-intensities, kind="stable")]
RECURSIVE SortDesc(_, _, _)
SortDesc(arr, coord, sorted) ==
    IF coord = <<>> THEN sorted
    ELSE SortDesc(arr, Tail(coord), InsertDesc(arr, sorted, Head(coord)))

\* every candidate kept, none rejected for its distance
ensure_spacing_off(coord, spacing, kept) == kept \o coord

RECURSIVE ensure_spacing(_, _, _)
ensure_spacing(coord, spacing, kept) ==
    IF coord = <<>> THEN kept
    ELSE IF \E i \in 1..Len(kept) : Chebyshev(kept[i], Head(coord)) < spacing
         THEN ensure_spacing(Tail(coord), spacing, kept)
         ELSE ensure_spacing(Tail(coord), spacing, Append(kept, Head(coord)))

get_high_intensity_peaks(arr, mask, min_distance) ==
    ensure_spacing(SortDesc(arr, RowMajor(arr, mask), <<>>), min_distance, <<>>)

peak_local_max(arr, min_distance, t, nanIsMax) ==
    get_high_intensity_peaks(
        arr,
        exclude_border(arr, get_peak_mask(arr, min_distance, t, nanIsMax), min_distance),
        min_distance)

-----------------------------------------------------------------------------
(* np.interp(i, np.arange(len(steps)), steps) at an integer index i: the   *)
(* value at i, the first or last value outside the range, ValueError for   *)
(* an empty steps.                                                         *)

np_interp(i, steps) == steps[Min2(Max2(i, 0), Len(steps) - 1) + 1]

-----------------------------------------------------------------------------
(* detect_nv_centers.  The value is [exc, result]: the exception raised    *)
(* ("none" when it returns) and the dictionary returned.                   *)

\* an optional argument is <<>> (None) or <<value>>
None == <<>>

\* no dictionary: its threshold is no number (den = 0)
NoResult == [coordinates |-> <<>>, x_positions |-> <<>>, y_positions |-> <<>>,
             intensities |-> <<>>, processed_image |-> <<>>,
             threshold |-> Surd(0, 0, 0, 0)]

Raise(e) == [exc |-> e, result |-> NoResult]
Return(r) == [exc |-> "none", result |-> r]

EmptyResult(image, threshold) ==
    [coordinates |-> <<>>, x_positions |-> <<>>, y_positions |-> <<>>,
     intensities |-> <<>>, processed_image |-> image, threshold |-> threshold]

\* lines 48-51
\* "if not min_peak_height": an explicit 0 taken for an absent argument
ThresholdFalsy(scan_counts, threshold_factor, min_peak_height) ==
    IF min_peak_height = None \/ min_peak_height = <<0>>
    THEN StatThreshold(scan_counts, threshold_factor)
    ELSE FromInt(min_peak_height[1])

Threshold(scan_counts, threshold_factor, min_peak_height) ==
    IF min_peak_height = None
    THEN StatThreshold(scan_counts, threshold_factor)
    ELSE FromInt(min_peak_height[1])

\* lines 57-61
Coordinates(smoothed, threshold, min_distance, nanIsMax) ==
    IF LeZero(threshold) \/ ~AnyExceeds(smoothed, threshold)
    THEN <<>>
    ELSE peak_local_max(smoothed, min_distance, threshold, nanIsMax)

\* line 83
\* smoothed[y_indices, x_indices] in place of scan_counts[y_indices, x_indices]
IntensitiesSmoothed(scan_counts, coordinates) ==
    LET smoothed == gaussian_filter(scan_counts) IN
    [i \in 1..Len(coordinates) |-> At(smoothed, coordinates[i][1], coordinates[i][2])]

Intensities(scan_counts, coordinates) ==
    [i \in 1..Len(coordinates) |-> At(scan_counts, coordinates[i][1], coordinates[i][2])]

\* lines 79-80
\* the whole axis returned in place of the positions of the peaks
PositionsOfAxis(indices, steps) == steps

Positions(indices, steps) ==
    [i \in 1..Len(indices) |-> np_interp(indices[i], steps)]

\* the degenerate-input guard of line 24
IsDegenerate(scan_counts) == ArraySize(scan_counts) = 0 \/ AllIsNaN(scan_counts)

detect_nv_centers(d, threshold_factor, min_distance, min_peak_height, nanIsMax) ==
    IF "ScanCounts" \notin d.keys THEN Raise("KeyError")
    ELSE IF ~IsRect(d.ScanCounts) THEN Raise("ValueError")
    ELSE IF "xSteps" \notin d.keys \/ "ySteps" \notin d.keys THEN Raise("KeyError")
    ELSE
    LET scan_counts == np_array(d.ScanCounts)
        x_steps == d.xSteps
        y_steps == d.ySteps
    IN
    IF ArraySize(scan_counts) = 0
    THEN Return(EmptyResult(scan_counts.a, FromInt(0)))
    ELSE IF scan_counts.dtype = "object" THEN Raise("TypeError")
    ELSE IF AllIsNaN(scan_counts)
    THEN Return(EmptyResult(scan_counts.a, FromInt(0)))
    ELSE
    LET threshold == Threshold(scan_counts, threshold_factor, min_peak_height)
        smoothed == gaussian_filter(scan_counts)
        coordinates == Coordinates(smoothed, threshold, min_distance, nanIsMax)
    IN
    IF Len(coordinates) = 0
    THEN Return(EmptyResult(smoothed.a, threshold))
    ELSE IF Len(x_steps) = 0 \/ Len(y_steps) = 0 THEN Raise("ValueError")
    ELSE
    LET y_indices == [i \in 1..Len(coordinates) |-> coordinates[i][1]]
        x_indices == [i \in 1..Len(coordinates) |-> coordinates[i][2]]
    IN  Return([coordinates |-> coordinates,
                x_positions |-> Positions(x_indices, x_steps),
                y_positions |-> Positions(y_indices, y_steps),
                intensities |-> Intensities(scan_counts, coordinates),
                processed_image |-> smoothed.a,
                threshold |-> threshold])

-----------------------------------------------------------------------------
(* The input containers: what json.load finds in a file.  A container is   *)
(* the set of keys of data['datasets'], the three values, and whether      *)
(* data['params'] is there.                                                *)

Hi == 100          \* the count of a bright cell

\* axis steps 0, 1, 2, ...
Steps(n) == [i \in 1..n |-> i - 1]

CellsOf(shape) == {<<y, x>> : y \in 0..(shape[1] - 1), x \in 0..(shape[2] - 1)}

\* the H x W grid of background bg with the cells of spots (position, value)
\* set; a later spot at the same cell wins
Grid(shape, bg, spots) ==
    [y \in 1..shape[1] |-> [x \in 1..shape[2] |->
        LET hit == {i \in 1..Len(spots) : spots[i][1] = <<y - 1, x - 1>>} IN
        IF hit = {} THEN bg ELSE spots[CHOOSE i \in hit : \A j \in hit : j <= i][2]]]

Before(p, q) == p[1] < q[1] \/ (p[1] = q[1] /\ p[2] < q[2])

\* up to MaxSpots bright cells among cells, in row-major order
Bright(cells) ==
    UNION {{s \in [1..m -> cells \X {Num(Hi)}] :
               \A i \in 1..(m - 1) : Before(s[i][1], s[i + 1][1])} : m \in 0..MaxSpots}

\* no missing cell, or one (NaN or null) at the first or the last cell
Missing(shape) ==
    {<<>>} \cup {<< <<p, c>> >> : p \in {<<0, 0>>, <<shape[1] - 1, shape[2] - 1>>} \cap CellsOf(shape),
                                  c \in {NaN, Null}}

\* grids that may hold missing values, on a background of zero counts or of NaN
SmallShapes == {<<0, 0>>, <<1, 0>>, <<1, 1>>, <<3, 3>>, <<3, 4>>}

SmallGrids(shape) ==
    {Grid(shape, bg, b \o m) : bg \in {Num(0), NaN}, b \in Bright(CellsOf(shape)), m \in Missing(shape)}

\* grids of counts wide enough for two peaks min_distance = 2 from the border,
\* their bright cells on the scan lines 1 and 2
PeakShape == <<5, 6>>

PeakGrids ==
    {Grid(PeakShape, Num(0), b) : b \in Bright({p \in CellsOf(PeakShape) : p[1] \in {1, 2}})}

\* the 5 x 5 grid of zeros with the single value 100 at (2, 2)
ScenarioGrid == Grid(<<5, 5>>, Num(0), << <<(<<2, 2>>), Num(100)>> >>)

Grids == UNION {SmallGrids(sh) : sh \in SmallShapes} \cup PeakGrids \cup {ScenarioGrid}

Container(g, keys, xs, ys, params) ==
    [keys |-> keys, ScanCounts |-> g, xSteps |-> xs, ySteps |-> ys, params |-> params]

DatasetKeys == {"ScanCounts", "xSteps", "ySteps"}

Width(g) == IF g = <<>> THEN 0 ELSE Len(g[1])

\* a container of the documented format
WellFormed(g) == Container(g, DatasetKeys, Steps(Width(g)), Steps(Len(g)), TRUE)

\* g without the last cell of its last row
Ragged(g) == [g EXCEPT ![Len(g)] = SubSeq(g[Len(g)], 1, Len(g[Len(g)]) - 1)]

\* malformed containers: a key missing, a ragged grid, an axis of the wrong length
Malformed(g) ==
    {Container(g, DatasetKeys \ {k}, Steps(Width(g)), Steps(Len(g)), TRUE) : k \in DatasetKeys}
    \cup {Container(g, DatasetKeys, Steps(w), Steps(Len(g)), TRUE) :
             w \in {0, Width(g) - 1, Width(g) + 1} \cap Nat}
    \cup {Container(g, DatasetKeys, Steps(Width(g)), Steps(h), TRUE) :
             h \in {0, Len(g) - 1, Len(g) + 1} \cap Nat}
    \cup (IF Len(g) >= 2 /\ Width(g) >= 1
          THEN {Container(Ragged(g), DatasetKeys, Steps(Width(g)), Steps(Len(g)), TRUE)}
          ELSE {})

\* the grids the malformed containers are made of
BaseGrids == {Grid(<<3, 3>>, Num(0), <<>>), Grid(<<3, 3>>, Num(0), << <<(<<1, 1>>), Num(Hi)>> >>)}

Containers ==
    {WellFormed(g) : g \in Grids} \cup UNION {Malformed(g) : g \in BaseGrids}

\* what the documented format asks of a container
IsWellFormed(d) ==
    /\ d.keys = DatasetKeys
    /\ IsRect(d.ScanCounts)
    /\ Len(d.xSteps) = Width(d.ScanCounts)
    /\ Len(d.ySteps) = Len(d.ScanCounts)

Defaults == [threshold_factor |-> DefaultThresholdFactor,
             min_distance |-> DefaultMinDistance,
             min_peak_height |-> None]

Kwargs ==
    {Defaults} \cup
    [threshold_factor : {0, DefaultThresholdFactor},
     min_distance : {1, 2},
     min_peak_height : {None, <<0>>, <<20>>}]

NoData == Container(<<>>, {}, <<>>, <<>>, FALSE)

-----------------------------------------------------------------------------
(* One file through loadJson and detect_nv_centers.                        *)

Idle ==
    /\ bpc = "idle" /\ file_paths = <<>> /\ output_dir = "" /\ idx = 0
    /\ stage = "-" /\ all_results = <<>> /\ log = <<>> /\ raised = "none"

Init ==
    /\ pc = "start"
    /\ data = NoData
    /\ kwargs \in Kwargs
    /\ results = NoResult
    /\ exc = "none"
    /\ Idle

\* loadJson returns whatever json.load parsed; open and json.load may raise
LoadJson ==
    /\ pc = "start"
    /\ \/ \E c \in Containers : data' = c /\ pc' = "loaded" /\ exc' = "none"
       \/ data' = data /\ pc' = "raised" /\ exc' \in {"FileNotFoundError", "JSONDecodeError"}
    /\ UNCHANGED <<kwargs, results>>
    /\ UNCHANGED batchVars

NanChoices(d) == IF NaN \in Range(Flatten(d.ScanCounts)) THEN BOOLEAN ELSE {FALSE}

Detect ==
    /\ pc = "loaded"
    /\ \E nanIsMax \in NanChoices(data) :
       \E r \in {detect_nv_centers(data, kwargs.threshold_factor, kwargs.min_distance,
                                    kwargs.min_peak_height, nanIsMax)} :
          /\ results' = r.result
          /\ exc' = r.exc
          /\ pc' = IF r.exc = "none" THEN "returned" ELSE "raised"
    /\ UNCHANGED <<data, kwargs>>
    /\ UNCHANGED batchVars

Next == LoadJson \/ Detect

Spec == Init /\ [][Next]_vars

-----------------------------------------------------------------------------
(* process_fsm_files: os.makedirs before the loop, then per input the body *)
(* of the try (loadJson, data['params'], detect_nv_centers,                *)
(* visualize_results), an except Exception that prints and goes on, and    *)
(* the return of all_results after the loop.                               *)

\* what a path leads to: open() or json.load() raising, or a container
File(opens, content) == [open |-> opens, content |-> content]

CentreGrid == Grid(<<3, 3>>, Num(0), << <<(<<1, 1>>), Num(Hi)>> >>)

BatchFiles ==
    {File("FileNotFoundError", NoData),
     File("ok", WellFormed(CentreGrid)),
     File("ok", [WellFormed(CentreGrid) EXCEPT !.params = FALSE]),
     File("ok", WellFormed(Grid(<<3, 3>>, Num(0), << <<(<<0, 0>>), Null>> >>))),
     File("ok", WellFormed(<<>>))}

BatchKwargs == [threshold_factor |-> 0, min_distance |-> 1, min_peak_height |-> None]

BatchInit ==
    /\ pc = "idle" /\ data = NoData /\ results = NoResult /\ exc = "none"
    /\ kwargs = BatchKwargs
    /\ bpc = "start"
    /\ file_paths \in UNION {[1..n -> BatchFiles] : n \in 0..MaxFiles}
    /\ output_dir \in {"", "exists", "new", "blocked"}
    /\ idx = 0
    /\ stage = "-"
    /\ all_results = <<>>
    /\ log = <<>>
    /\ raised = "none"

\* the for statement takes input i, if there is one
Enter(i) ==
    /\ idx' = i
    /\ IF i < Len(file_paths)
       THEN /\ stage' = "load"
            /\ log' = Append(log, [idx |-> i, outcome |-> "running", detected |-> FALSE])
       ELSE /\ stage' = "-"
            /\ log' = log

\* the current input ends with outcome e and the for statement takes the next
Leave(e) ==
    /\ idx' = idx + 1
    /\ IF idx + 1 < Len(file_paths)
       THEN /\ stage' = "load"
            /\ log' = Append([log EXCEPT ![Len(log)].outcome = e],
                             [idx |-> idx + 1, outcome |-> "running", detected |-> FALSE])
       ELSE /\ stage' = "-"
            /\ log' = [log EXCEPT ![Len(log)].outcome = e]

\* a handler that leaves the loop: the inputs after the failing one are dropped
ExceptBreak(e) ==
    /\ idx' = idx
    /\ stage' = "-"
    /\ log' = [log EXCEPT ![Len(log)].outcome = e]

\* except Exception as e: print(...)
Except(e) == Leave(e)

\* lines 175-176: a directory that cannot be made raises out of the call
MakeDirs ==
    /\ bpc = "start"
    /\ IF output_dir = "blocked"
       THEN /\ bpc' = "raised" /\ raised' = "OSError"
            /\ UNCHANGED <<output_dir, idx, stage, log>>
       ELSE /\ bpc' = "loop" /\ raised' = raised
            /\ output_dir' = IF output_dir = "new" THEN "exists" ELSE output_dir
            /\ Enter(0)
    /\ UNCHANGED <<file_paths, all_results>>
    /\ UNCHANGED detVars

\* line 190
LoadStep ==
    /\ bpc = "loop" /\ stage = "load"
    /\ LET f == file_paths[idx + 1] IN
       IF f.open = "ok"
       THEN /\ data' = f.content
            /\ stage' = "params"
            /\ UNCHANGED <<idx, log>>
       ELSE /\ Except(f.open)
            /\ data' = data
    /\ UNCHANGED <<pc, kwargs, results, exc, bpc, file_paths, output_dir, all_results, raised>>

\* lines 193-196
ParamsStep ==
    /\ bpc = "loop" /\ stage = "params"
    /\ IF data.params
       THEN stage' = "detect" /\ UNCHANGED <<idx, log>>
       ELSE Except("KeyError")
    /\ UNCHANGED detVars
    /\ UNCHANGED <<bpc, file_paths, output_dir, all_results, raised>>

\* the calls of detect_nv_centers that the batch can make, with their values
Detections ==
    {[data |-> f.content, kwargs |-> BatchKwargs,
      r |-> detect_nv_centers(f.content, BatchKwargs.threshold_factor, BatchKwargs.min_distance,
                              BatchKwargs.min_peak_height, nanIsMax)] :
        f \in {g \in BatchFiles : g.open = "ok"},
        nanIsMax \in UNION {NanChoices(g.content) : g \in BatchFiles}}

\* lines 199-202
DetectStep ==
    /\ bpc = "loop" /\ stage = "detect"
    /\ \E call \in Detections :
          /\ call.data = data /\ call.kwargs = kwargs
          /\ IF call.r.exc = "none"
             THEN /\ results' = call.r.result
                  /\ all_results' = Append(all_results, call.r.result)
                  /\ stage' = "visualize"
                  /\ log' = [log EXCEPT ![Len(log)].detected = TRUE]
                  /\ idx' = idx
             ELSE /\ Except(call.r.exc)
                  /\ UNCHANGED <<results, all_results>>
    /\ UNCHANGED <<pc, data, kwargs, exc, bpc, file_paths, output_dir, raised>>

\* visualize_results: min(x_steps) of an empty axis raises ValueError
VisualizeRaises(d) == Len(d.xSteps) = 0 \/ Len(d.ySteps) = 0

\* lines 205-210: with an output directory plt.savefig may fail
VisualizeStep ==
    /\ bpc = "loop" /\ stage = "visualize"
    /\ IF VisualizeRaises(data)
       THEN Except("ValueError")
       ELSE \/ Leave("ok")
            \/ output_dir # "" /\ Except("OSError")
    /\ UNCHANGED detVars
    /\ UNCHANGED <<bpc, file_paths, output_dir, all_results, raised>>

\* line 217
ReturnResults ==
    /\ bpc = "loop" /\ stage = "-"
    /\ bpc' = "done"
    /\ UNCHANGED detVars
    /\ UNCHANGED <<file_paths, output_dir, idx, stage, all_results, log, raised>>

BatchNext == MakeDirs \/ LoadStep \/ ParamsStep \/ DetectStep \/ VisualizeStep \/ ReturnResults

SpecBatch == BatchInit /\ [][BatchNext]_vars

\* the interpreter runs the call on: a step that can be taken is taken
SpecBatchFair == SpecBatch /\ WF_vars(BatchNext)

-----------------------------------------------------------------------------
(* Properties.                                                              *)

Finished == pc \in {"returned", "raised"} /\ data # NoData

Counts == data.ScanCounts

\* a cell the format calls missing: NaN, or null in the container
IsMissing(c) == c.k \in {"nan", "null"}

CountsEmpty == Len(Counts) * Width(Counts) = 0
CountsAllMissing == \A c \in Range(Flatten(Counts)) : IsMissing(c)

\* the grid as the format reads it: null is a missing value, as NaN is
AsMissing(g) == [y \in 1..Len(g) |-> [x \in 1..Len(g[y]) |-> IF IsMissing(g[y][x]) THEN NaN ELSE g[y][x]]]

\* the cutoff the call asks for
Cutoff == Threshold(np_array(AsMissing(Counts)), kwargs.threshold_factor, kwargs.min_peak_height)

Smoothed == gaussian_filter(np_array(AsMissing(Counts)))

NoPeaks ==
    /\ results.coordinates = <<>> /\ results.x_positions = <<>>
    /\ results.y_positions = <<>> /\ results.intensities = <<>>

\* C1: whenever detect_nv_centers returns, on any of its three return paths,
\* coordinates, x_positions, y_positions and intensities have the same length.
C1_SameLengths ==
    pc = "returned" =>
        /\ Len(results.x_positions) = Len(results.coordinates)
        /\ Len(results.y_positions) = Len(results.coordinates)
        /\ Len(results.intensities) = Len(results.coordinates)

\* the normal return path, with two peaks
C1_Witness == pc = "returned" /\ Len(results.coordinates) = 2

\* C2: for a container of the documented format whose counts is empty or all
\* missing (NaN or null), detect_nv_centers does not raise and returns empty
\* sequences, counts unchanged as processed_image, and the threshold 0.
C2_DegenerateReturnsEmpty ==
    (Finished /\ IsWellFormed(data) /\ (CountsEmpty \/ CountsAllMissing)) =>
        /\ pc = "returned"
        /\ NoPeaks
        /\ results.processed_image = Counts
        /\ results.threshold = FromInt(0)

\* C3: for counts neither empty nor all missing, when the cutoff is <= 0 or no
\* smoothed cell exceeds it, detect_nv_centers returns empty sequences, the
\* smoothed grid as processed_image and the computed cutoff as threshold.
C3_GuardReturnsEmpty ==
    (/\ Finished /\ IsWellFormed(data) /\ ~CountsEmpty /\ ~CountsAllMissing
     /\ (LeZero(Cutoff) \/ ~AnyExceeds(Smoothed, Cutoff))) =>
        /\ pc = "returned"
        /\ NoPeaks
        /\ results.processed_image = Smoothed.a
        /\ results.threshold = Cutoff

\* C3 on the containers that hold no null: there the guard does as C3 says
C3_WithoutNull ==
    Null \in Range(Flatten(Counts)) \/ C3_GuardReturnsEmpty

\* C4: when detect_nv_centers returns for counts neither empty nor all missing,
\* the threshold is min_peak_height if it was given, whatever threshold_factor
\* and the statistics are, and mean + threshold_factor * std (over the cells
\* that are not NaN) otherwise.
C4_ThresholdOverride ==
    (pc = "returned" /\ IsRect(Counts) /\ ~CountsEmpty /\ ~CountsAllMissing) =>
        LET st == NanStats(np_array(Counts)) IN
        IF kwargs.min_peak_height # None
        THEN results.threshold = FromInt(kwargs.min_peak_height[1])
        ELSE results.threshold = Surd(st.s, kwargs.threshold_factor, st.rad, st.n)

\* an explicit min_peak_height that is not the statistic, with peaks found
C4_Witness ==
    /\ pc = "returned" /\ kwargs.min_peak_height = <<20>>
    /\ results.coordinates # <<>>
    /\ results.threshold = FromInt(20)

Pairs(n) == {p \in (1..n) \X (1..n) : p[1] < p[2]}

\* C5 as amended: no two entries of coordinates are closer than min_distance,
\* in Chebyshev distance (the larger of the row and the column offset).
C5_AtLeastMinDistance ==
    pc = "returned" =>
        \A p \in Pairs(Len(results.coordinates)) :
            Chebyshev(results.coordinates[p[1]], results.coordinates[p[2]]) >= kwargs.min_distance

\* C5 as stated: no two entries of coordinates lie within min_distance of each
\* other, a distance of exactly min_distance included.
C5_BeyondMinDistance ==
    pc = "returned" =>
        \A p \in Pairs(Len(results.coordinates)) :
            Chebyshev(results.coordinates[p[1]], results.coordinates[p[2]]) > kwargs.min_distance

\* a peak was kept and an equal one, closer than min_distance, was rejected
C5_Witness ==
    /\ pc = "returned" /\ kwargs.min_distance = 2 /\ Len(results.coordinates) = 1
    /\ LET sm == [np_array(results.processed_image) EXCEPT !.dtype = "int64"]
           c == results.coordinates[1]
       IN  \E q \in exclude_border(sm, AllCells(sm), 2) :
              /\ q # c /\ Chebyshev(q, c) < 2
              /\ At(sm, q[1], q[2]) = At(sm, c[1], c[2])

\* C6: every entry of coordinates is an index of counts, and the intensity at
\* the same position is the raw count there, not the smoothed one.
C6_RawIntensities ==
    pc = "returned" =>
        \A i \in 1..Len(results.coordinates) :
            LET y == results.coordinates[i][1]
                x == results.coordinates[i][2]
            IN  /\ y \in 0..(Len(Counts) - 1)
                /\ x \in 0..(Width(Counts) - 1)
                /\ results.intensities[i] = Counts[y + 1][x + 1]

\* a peak whose raw count is not its smoothed value
C6_Witness ==
    /\ pc = "returned" /\ results.coordinates # <<>>
    /\ LET c == results.coordinates[1] IN
       results.intensities[1] # results.processed_image[c[1] + 1][c[2] + 1]

InScenario == Finished /\ data = WellFormed(ScenarioGrid) /\ kwargs = Defaults

\* C7 as stated: for the 5 x 5 grid with 100 at (2, 2), steps 0..4 and the
\* default arguments, detect_nv_centers returns the one peak (2, 2).
C7_OnePeak ==
    InScenario =>
        /\ pc = "returned"
        /\ results.coordinates = << <<2, 2>> >>
        /\ results.intensities = <<Num(100)>>
        /\ results.x_positions = <<2>>
        /\ results.y_positions = <<2>>

\* C7 as amended: there detect_nv_centers returns no peak; the threshold is
\* 4 + 2 * sqrt(384) = (100 + 2 * sqrt(240000)) / 25, about 43.2, and the
\* largest smoothed value, at (2, 2), is 15.
C7_NoPeak ==
    InScenario =>
        /\ pc = "returned"
        /\ NoPeaks
        /\ results.threshold = Surd(100, 2, 240000, 25)
        /\ results.processed_image[3][3] = Num(15)
        /\ \A y \in 1..5 : \A x \in 1..5 :
              /\ results.processed_image[y][x].v <= 15
              /\ ~CellExceeds(results.processed_image[y][x], results.threshold)

C7_Witness == InScenario /\ pc = "returned"

\* C8: a container that loadJson returned, and that detect_nv_centers is
\* therefore called with, has the three keys, a rectangular grid and axes of
\* the grid's width and height.
C8_LoadedIsWellFormed == data # NoData => IsWellFormed(data)

\* C10: every entry of coordinates is a cell of processed_image that is a
\* number strictly above threshold and not below any cell of its
\* (2 * min_distance + 1)-wide neighbourhood.
C10_PeaksExceedThreshold ==
    pc = "returned" =>
        LET sm == [np_array(results.processed_image) EXCEPT !.dtype = "int64"] IN
        \A i \in 1..Len(results.coordinates) :
            LET c == results.coordinates[i]
                v == At(sm, c[1], c[2])
            IN  /\ IsNum(v)
                /\ SurdSign(results.threshold.den * v.v - results.threshold.num,
                            -results.threshold.coef, results.threshold.rad) = 1
                /\ \A q \in AllCells(sm) :
                      Chebyshev(q, c) <= kwargs.min_distance => At(sm, q[1], q[2]).v <= v.v

\* a peak next to a cell that also exceeds the threshold but is no maximum
C10_Witness ==
    /\ pc = "returned" /\ results.coordinates # <<>>
    /\ LET sm == [np_array(results.processed_image) EXCEPT !.dtype = "int64"]
           c == results.coordinates[1]
       IN  \E q \in AllCells(sm) :
              /\ Chebyshev(q, c) = 1
              /\ CellExceeds(At(sm, q[1], q[2]), results.threshold)
              /\ At(sm, q[1], q[2]).v < At(sm, c[1], c[2]).v

RECURSIVE CountDetected(_)
CountDetected(n) == IF n = 0 THEN 0 ELSE CountDetected(n - 1) + (IF log[n].detected THEN 1 ELSE 0)

\* the inputs attempted so far are the first ones of the list, once each, and
\* a call that is over has attempted them all or has attempted none
C9_InOrder ==
    /\ \A i \in 1..Len(log) : log[i].idx = i - 1
    /\ Len(all_results) = CountDetected(Len(log))
    /\ bpc = "done" =>
          /\ Len(log) = Len(file_paths)
          /\ \A i \in 1..Len(log) : log[i].outcome # "running"
    /\ bpc = "raised" => raised = "OSError" /\ log = <<>> /\ all_results = <<>>

\* C9 as amended: process_fsm_files attempts each input once, in list order,
\* whatever the inputs before it raised, and once the loop is entered the call
\* returns the list of results; the one way it raises is os.makedirs failing,
\* before any input is attempted.
C9_ErrorsIsolated ==
    /\ []C9_InOrder
    /\ (bpc = "loop" ~> bpc = "done")
    /\ <>(bpc \in {"done", "raised"})

\* C9 as stated: the call always returns normally, every input attempted.
C9_AlwaysReturns == <>(bpc = "done" /\ Len(log) = Len(file_paths))

\* a failed input followed by one that was processed to the end
C9_Witness ==
    /\ bpc = "done" /\ Len(log) = 2
    /\ log[1].outcome \notin {"ok", "running"} /\ log[2].outcome = "ok"
    /\ Len(all_results) = 1

\* counts holds a number and a NaN, and no null
CountsPartlyNaN ==
    /\ IsRect(Counts) /\ Null \notin Range(Flatten(Counts))
    /\ \E c \in Range(Flatten(Counts)) : IsNum(c)
    /\ \E c \in Range(Flatten(Counts)) : IsNaN(c)

SameShape(g, h) == Len(g) = Len(h) /\ \A y \in 1..Len(g) : Len(g[y]) = Len(h[y])

\* C11: when counts holds at least one number together with one or more NaN,
\* processed_image has the shape of counts and is not all NaN: some cell of
\* it is a number that can be compared with the threshold.
C11_SmoothedNotAllMissing ==
    (Finished /\ IsWellFormed(data) /\ CountsPartlyNaN) =>
        /\ pc = "returned"
        /\ SameShape(results.processed_image, Counts)
        /\ \E c \in Range(Flatten(results.processed_image)) : IsNum(c)

\* what the code does there: on a grid no wider and no higher than the kernel
\* radius plus one, every cell has the NaN under its kernel in one of the two
\* passes, so that processed_image is all NaN and no peak is returned
C11_NaNSpreads ==
    (/\ Finished /\ IsWellFormed(data) /\ CountsPartlyNaN
     /\ Len(Counts) <= KernelRadius + 1 /\ Width(Counts) <= KernelRadius + 1) =>
        /\ pc = "returned"
        /\ SameShape(results.processed_image, Counts)
        /\ \A c \in Range(Flatten(results.processed_image)) : IsNaN(c)
        /\ NoPeaks

=============================================================================
